---- MODULE Spec2Model ----
(***************************************************************************)
(* Model of the XRP dashboard updater (src/xrp_dashboard_updater.py): the  *)
(* update-merge cycle update_dashboard_json (load, fetch, reconcile market *)
(* metrics, reconcile exchange supply, persist), the fetcher               *)
(* fetch_xrp_price_data, the stub fetch_exchange_supply, the cycle driver  *)
(* continuous_update and the command surface under __main__.               *)
(*                                                                         *)
(* Representation.                                                         *)
(*  - A Python dict is a TLA+ record; a missing key is a missing field, so *)
(*    dashboard['k'] raises KeyError exactly when "k" \notin DOMAIN.       *)
(*  - A JSON number n is Num(n), JSON null is Null.                        *)
(*  - An ISO-8601 timestamp string is [iso |-> t], t the instant it names. *)
(*  - The exchange-supply integers exceed 32 bits; they are counted in     *)
(*    millions of XRP and str() writes the six trailing zeros.             *)
(***************************************************************************)
EXTENDS Integers, Sequences, FiniteSets, TLC

VARIABLES
    argv,        \* sys.argv[1:]
    pc,          \* position of the process
    file,        \* the store at `filename` on disk
    dashboard,   \* local `dashboard` of update_dashboard_json
    price_data,  \* local `price_data` of update_dashboard_json
    now,         \* the local wall clock read by datetime.now()
    ret,         \* how the current call of update_dashboard_json ended
    exc,         \* the exception that left update_dashboard_json, if any
    farewell,    \* "Update loop stopped by user" was printed
    prior,       \* the store as it was when the current cycle started
    response,    \* what requests.get met in the current cycle
    cycles,      \* calls of update_dashboard_json so far
    ops,         \* loads, HTTP requests and writes of the current cycle
    total_writes, \* writes to the store since the process started
    usage        \* the usage text was printed

vars == <<argv, pc, file, dashboard, price_data, now, ret, exc, farewell,
          prior, response, cycles, ops, total_writes, usage>>

----------------------------------------------------------------------------
(* Bounds *)

MaxVal == 2
MaxTime == 3
MaxCycles == 2

----------------------------------------------------------------------------
(* Values *)

None == [none |-> TRUE]

Num(n) == [num |-> n]

Null == [null |-> TRUE]

IsNumber(v) == "num" \in DOMAIN v

Values == {Num(n) : n \in 1..MaxVal}

Has(d, k) == k \in DOMAIN d

SetItem(d, k, v) == [x \in DOMAIN d \cup {k} |-> IF x = k THEN v ELSE d[x]]

DelItem(d, k) == [x \in DOMAIN d \ {k} |-> d[x]]

Digit(n) ==
    CASE n = 0 -> "0" [] n = 1 -> "1" [] n = 2 -> "2" [] n = 3 -> "3"
      [] n = 4 -> "4" [] n = 5 -> "5" [] n = 6 -> "6" [] n = 7 -> "7"
      [] n = 8 -> "8" [] n = 9 -> "9"

RECURSIVE Decimal(_)
Decimal(n) == IF n < 10 THEN Digit(n) ELSE Decimal(n \div 10) \o Digit(n % 10)

\* str() of an integer given in millions
str(millions) == Decimal(millions) \o "000000"

\* datetime.isoformat() of the instant t
isoformat(t) == [iso |-> t]

----------------------------------------------------------------------------
(* The store and the dashboard documents *)

Missing == [kind |-> "missing"]

Corrupt == [kind |-> "corrupt"]

\* json.dump(dashboard, f, indent=2): the file holds the text of the document
json_dump(d) == [kind |-> "json", doc |-> d]

\* json.load(f) of a file holding valid JSON
json_load(f) == f.doc

MetricKeys ==
    {"price_usd", "price_change_24h_pct", "market_cap_usd", "volume_24h_usd"}

SupplyKeys == {"binance_reserves_xrp", "total_exchange_supply_xrp"}

Metrics(v) ==
    [price_usd |-> v, price_change_24h_pct |-> v, market_cap_usd |-> v,
     volume_24h_usd |-> v, circulating_supply |-> "59B"]

KeyMetrics(b, t) ==
    [binance_reserves_xrp |-> b, total_exchange_supply_xrp |-> t,
     depletion_rate |-> "high"]

Document(v, t, b, s) ==
    [metadata |-> [last_updated |-> isoformat(t), version |-> "1.0"],
     current_market_metrics |-> Metrics(v),
     trigger_dashboard |->
        [exchange_supply_depletion |->
            [key_metrics |-> KeyMetrics(b, s), status |-> "active"],
         etf_flows |-> "pending"],
     simulation_models |-> "models",
     scenario_projections |-> "scenarios"]

PriorValues == {Num(0), Num(MaxVal)}

PriorBinance == {str(3600), str(3500)}

PriorTotal == {str(8500), str(8400)}

WellFormedDocs ==
    {Document(v, t, b, s) : v \in PriorValues, t \in 0..MaxTime,
                            b \in PriorBinance, s \in PriorTotal}

BaseDoc == Document(Num(0), 0, str(3500), str(8400))

\* loadable documents that lack a section the cycle indexes
MalformedDocs ==
    { DelItem(BaseDoc, "current_market_metrics"),
      DelItem(BaseDoc, "metadata"),
      DelItem(BaseDoc, "trigger_dashboard"),
      SetItem(BaseDoc, "trigger_dashboard", [etf_flows |-> "pending"]),
      SetItem(BaseDoc, "trigger_dashboard",
              [exchange_supply_depletion |-> [status |-> "active"],
               etf_flows |-> "pending"]) }

HasSupplyPath(d) ==
    /\ Has(d, "trigger_dashboard")
    /\ Has(d.trigger_dashboard, "exchange_supply_depletion")
    /\ Has(d.trigger_dashboard.exchange_supply_depletion, "key_metrics")

WellFormed(d) ==
    /\ Has(d, "metadata")
    /\ Has(d, "current_market_metrics")
    /\ MetricKeys \subseteq DOMAIN d.current_market_metrics
    /\ Has(d.metadata, "last_updated")
    /\ HasSupplyPath(d)
    /\ SupplyKeys \subseteq
          DOMAIN d.trigger_dashboard.exchange_supply_depletion.key_metrics

Stores == {Missing, Corrupt} \cup {json_dump(d) : d \in WellFormedDocs \cup MalformedDocs}

----------------------------------------------------------------------------
(* fetch_xrp_price_data *)

NoResponse == [net |-> "none"]

Body(inner) == [net |-> "ok", status |-> 200, json |-> TRUE,
                data |-> [ripple |-> inner]]

Ripple(p, c, m, v) ==
    [usd |-> p, usd_24h_change |-> c, usd_market_cap |-> m, usd_24h_vol |-> v]

RippleKeys == {"usd", "usd_24h_change", "usd_market_cap", "usd_24h_vol"}

BaseRipple == Ripple(Num(1), Num(1), Num(1), Num(1))

\* requests.get failed or was interrupted before a response arrived
NetworkFaults == {[net |-> "ConnectionError"], [net |-> "Timeout"]}

Interrupted == [net |-> "KeyboardInterrupt"]

BadStatus == [net |-> "ok", status |-> 500, json |-> FALSE]

NotJson == [net |-> "ok", status |-> 200, json |-> FALSE]

NoAssetId == [net |-> "ok", status |-> 200, json |-> TRUE,
              data |-> [bitcoin |-> BaseRipple]]

MissingKeyBodies == {Body(DelItem(BaseRipple, k)) : k \in RippleKeys}

NullBodies == {Body(SetItem(BaseRipple, k, Null)) : k \in RippleKeys}

FullBodies ==
    {Body(Ripple(p, c, m, v)) : p \in Values, c \in Values,
                                m \in Values, v \in Values}

\* the failure causes of the fetch
FailedResponses ==
    NetworkFaults \cup {BadStatus, NotJson, NoAssetId} \cup MissingKeyBodies

Responses == FailedResponses \cup NullBodies \cup FullBodies \cup {Interrupted}

\* the exception raised inside the try block, "none" if the dict is built
FetchRaises(r) ==
    IF r.net # "ok" THEN r.net
    ELSE IF r.status >= 400 THEN "HTTPError"
    ELSE IF ~r.json THEN "JSONDecodeError"
    ELSE IF ~Has(r.data, "ripple") THEN "KeyError"
    ELSE IF ~(RippleKeys \subseteq DOMAIN r.data.ripple) THEN "KeyError"
    ELSE "none"

\* variant: `except requests.RequestException`
IsException_RequestOnly(e) ==
    e \in {"ConnectionError", "Timeout", "HTTPError"}

\* variant: a bare `except:`, which also catches KeyboardInterrupt
IsException_Bare(e) ==
    e \in {"ConnectionError", "Timeout", "HTTPError", "JSONDecodeError",
           "KeyError", "TypeError", "KeyboardInterrupt"}

\* `except Exception`: every class raised above but KeyboardInterrupt
IsException(e) ==
    e \in {"ConnectionError", "Timeout", "HTTPError", "JSONDecodeError",
           "KeyError", "TypeError"}

\* lines 28-33: the record built from data['ripple']
Snapshot(ripple) ==
    [price |-> ripple.usd,
     price_change_24h |-> ripple.usd_24h_change,
     market_cap |-> ripple.usd_market_cap,
     volume_24h |-> ripple.usd_24h_vol]

\* variant: market cap and volume read from each other's key
fetch_xrp_price_data_SwapCapVol(r) ==
    LET e == FetchRaises(r) IN
    IF e = "none"
    THEN [exc |-> "none",
          value |-> [Snapshot(r.data.ripple) EXCEPT
                       !.market_cap = r.data.ripple.usd_24h_vol,
                       !.volume_24h = r.data.ripple.usd_market_cap]]
    ELSE IF IsException(e) THEN [exc |-> "none", value |-> None]
    ELSE [exc |-> e, value |-> None]

fetch_xrp_price_data(r) ==
    LET e == FetchRaises(r) IN
    IF e = "none" THEN [exc |-> "none", value |-> Snapshot(r.data.ripple)]
    ELSE IF IsException(e) THEN [exc |-> "none", value |-> None]
    ELSE [exc |-> e, value |-> None]

----------------------------------------------------------------------------
(* fetch_exchange_supply, in millions of XRP *)

binance_reserves == 3600

total_exchange_supply == 8500

\* variant: other estimates are returned
fetch_exchange_supply_Estimate ==
    [binance_reserves |-> binance_reserves - 100,
     total_exchange_supply |-> total_exchange_supply,
     note |-> "Manual update required for accurate exchange data"]

fetch_exchange_supply ==
    [binance_reserves |-> binance_reserves,
     total_exchange_supply |-> total_exchange_supply,
     note |-> "Manual update required for accurate exchange data"]

----------------------------------------------------------------------------
(* the two reconcile steps of update_dashboard_json *)

\* lines 69-72
SetMetrics(d, pd) ==
    LET m0 == d.current_market_metrics
        m1 == SetItem(m0, "price_usd", pd.price)
        m2 == SetItem(m1, "price_change_24h_pct", pd.price_change_24h)
        m3 == SetItem(m2, "market_cap_usd", pd.market_cap)
        m4 == SetItem(m3, "volume_24h_usd", pd.volume_24h)
    IN SetItem(d, "current_market_metrics", m4)

\* line 75
SetTimestamp(d, t) ==
    SetItem(d, "metadata", SetItem(d.metadata, "last_updated", isoformat(t)))

\* lines 77-80: the format specs .4f and .2f and the divisions by 1e9
\* accept numbers only
Printable(pd) == \A k \in DOMAIN pd : IsNumber(pd[k])

\* lines 68-80, the branch taken when price_data is truthy: the dashboard
\* as the branch leaves it and the exception it raises
MergeFetched(d, pd, t) ==
    IF ~Has(d, "current_market_metrics")
    THEN [exc |-> "KeyError", dashboard |-> d]
    ELSE IF ~Has(d, "metadata")
    THEN [exc |-> "KeyError", dashboard |-> SetMetrics(d, pd)]
    ELSE IF ~Printable(pd)
    THEN [exc |-> "TypeError",
          dashboard |-> SetTimestamp(SetMetrics(d, pd), t)]
    ELSE [exc |-> "none", dashboard |-> SetTimestamp(SetMetrics(d, pd), t)]

\* variant: the timestamp is also set when the fetch produced no data
ReconcileMarketMetrics_AlwaysStamp(d, pd, t) ==
    IF pd # None THEN MergeFetched(d, pd, t)
    ELSE IF Has(d, "metadata")
    THEN [exc |-> "none", dashboard |-> SetTimestamp(d, t)]
    ELSE [exc |-> "KeyError", dashboard |-> d]

\* variant: the timestamp is never set
ReconcileMarketMetrics_NoStamp(d, pd, t) ==
    IF pd = None THEN [exc |-> "none", dashboard |-> d]
    ELSE LET out == MergeFetched(d, pd, t) IN
         IF Has(d, "metadata") /\ Has(out.dashboard, "metadata")
         THEN [out EXCEPT !.dashboard = SetItem(@, "metadata", d.metadata)]
         ELSE out

\* variant: the timestamp is a clock reading taken one tick too early
ReconcileMarketMetrics_StaleStamp(d, pd, t) ==
    IF pd = None THEN [exc |-> "none", dashboard |-> d]
    ELSE MergeFetched(d, pd, t - 1)

\* variant: current_market_metrics is replaced by the four fetched fields
ReconcileMarketMetrics_Overwrite(d, pd, t) ==
    IF pd = None THEN [exc |-> "none", dashboard |-> d]
    ELSE LET out == MergeFetched(d, pd, t) IN
         IF Has(d, "current_market_metrics")
         THEN [out EXCEPT !.dashboard =
                 SetItem(@, "current_market_metrics",
                         [k \in MetricKeys |-> @.current_market_metrics[k]])]
         ELSE out

\* variant: price_data is used without the `if price_data:` test
ReconcileMarketMetrics_NoGuard(d, pd, t) ==
    IF pd = None THEN [exc |-> "TypeError", dashboard |-> d]
    ELSE MergeFetched(d, pd, t)

\* lines 67-82: the dashboard and the exception raised, given price_data pd
\* and the clock reading t
ReconcileMarketMetrics(d, pd, t) ==
    IF pd = None THEN [exc |-> "none", dashboard |-> d]
    ELSE MergeFetched(d, pd, t)

\* lines 88-89: the two assignments, b and s the strings assigned
SetSupply(d, b, s) ==
    LET td == d.trigger_dashboard
        esd == td.exchange_supply_depletion
        k1 == SetItem(esd.key_metrics, "binance_reserves_xrp", b)
        k2 == SetItem(k1, "total_exchange_supply_xrp", s)
    IN SetItem(d, "trigger_dashboard",
         SetItem(td, "exchange_supply_depletion",
           SetItem(esd, "key_metrics", k2)))

\* variant: each field receives the other constant
ReconcileExchangeSupply_Swapped(d, exchange_data) ==
    IF ~HasSupplyPath(d) THEN [exc |-> "KeyError", dashboard |-> d]
    ELSE [exc |-> "none",
          dashboard |-> SetSupply(d, str(exchange_data.total_exchange_supply),
                                     str(exchange_data.binance_reserves))]

\* variant: key_metrics is replaced by a dict of the two fields
ReconcileExchangeSupply_Replace(d, exchange_data) ==
    IF ~HasSupplyPath(d) THEN [exc |-> "KeyError", dashboard |-> d]
    ELSE LET td == d.trigger_dashboard
             esd == td.exchange_supply_depletion
         IN [exc |-> "none",
             dashboard |->
               SetItem(d, "trigger_dashboard",
                 SetItem(td, "exchange_supply_depletion",
                   SetItem(esd, "key_metrics",
                     [binance_reserves_xrp |->
                        str(exchange_data.binance_reserves),
                      total_exchange_supply_xrp |->
                        str(exchange_data.total_exchange_supply)])))]

\* lines 84-90: `if exchange_data` always holds, the dict is never empty
ReconcileExchangeSupply(d, exchange_data) ==
    IF ~HasSupplyPath(d) THEN [exc |-> "KeyError", dashboard |-> d]
    ELSE [exc |-> "none",
          dashboard |-> SetSupply(d, str(exchange_data.binance_reserves),
                                     str(exchange_data.total_exchange_supply))]

----------------------------------------------------------------------------
(* The process *)

Args == {<<>>, <<"--continuous">>, <<"--help">>, <<"--version">>}

\* variant: the loop is also entered when no argument is given
Continuous_Default == Len(argv) = 0 \/ argv[1] = "--continuous"

Continuous == Len(argv) > 0 /\ argv[1] = "--continuous"

NoOps == [loads |-> 0, requests |-> 0, writes |-> 0]

Init ==
    /\ argv \in Args
    /\ pc = "main"
    /\ file \in Stores
    /\ dashboard = None
    /\ price_data = None
    /\ now = 1
    /\ ret = "none"
    /\ exc = "none"
    /\ farewell = FALSE
    /\ prior = file
    /\ response = NoResponse
    /\ cycles = 0
    /\ ops = NoOps
    /\ total_writes = 0
    /\ usage = FALSE

\* variant: every argument but --continuous falls through to the single
\* update
Main_HelpUpdates ==
    /\ pc = "main"
    /\ pc' = "load"
    /\ usage' = (Len(argv) > 0 /\ argv[1] = "--help")
    /\ UNCHANGED <<argv, file, dashboard, price_data, now, ret, exc, farewell,
                   prior, response, cycles, ops, total_writes>>

\* lines 115-131: the command surface
Main ==
    /\ pc = "main"
    /\ pc' = IF Len(argv) > 0
             THEN IF argv[1] = "--continuous" THEN "load" ELSE "exited"
             ELSE "load"
    /\ usage' = (Len(argv) > 0 /\ argv[1] = "--help")
    /\ UNCHANGED <<argv, file, dashboard, price_data, now, ret, exc, farewell,
                   prior, response, cycles, ops, total_writes>>

\* where an exception e that leaves update_dashboard_json ends up:
\* continuous_update (lines 107-113) catches KeyboardInterrupt only
Unwind(e) ==
    /\ exc' = e
    /\ ret' = "raised"
    /\ IF Continuous /\ e = "KeyboardInterrupt"
       THEN pc' = "exited" /\ farewell' = TRUE
       ELSE pc' = "crashed" /\ farewell' = farewell

\* variant: the file is opened in a mode that creates it when it is missing
open_load_Create(f) ==
    CASE f.kind = "missing" ->
           [exc |-> "JSONDecodeError", dashboard |-> None, file |-> Corrupt]
      [] f.kind = "corrupt" ->
           [exc |-> "JSONDecodeError", dashboard |-> None, file |-> f]
      [] f.kind = "json" ->
           [exc |-> "none", dashboard |-> json_load(f), file |-> f]

\* lines 56-58: open(filename, 'r') and json.load; the exception raised,
\* the dashboard loaded and the store as opening it leaves it
open_load(f) ==
    CASE f.kind = "missing" ->
           [exc |-> "FileNotFoundError", dashboard |-> None, file |-> f]
      [] f.kind = "corrupt" ->
           [exc |-> "JSONDecodeError", dashboard |-> None, file |-> f]
      [] f.kind = "json" ->
           [exc |-> "none", dashboard |-> json_load(f), file |-> f]

\* variant: the HTTP request is issued before the store is opened
Load_FetchFirst ==
    /\ pc = "load"
    /\ UNCHANGED usage
    /\ cycles' = cycles + 1
    /\ prior' = file
    /\ ops' = [NoOps EXCEPT !.loads = 1, !.requests = 1]
    /\ response' = NoResponse
    /\ price_data' = None
    /\ LET out == open_load(file) IN
         /\ dashboard' = out.dashboard
         /\ file' = out.file
         /\ CASE out.exc = "none" ->
                   /\ ret' = "none"
                   /\ pc' = "fetch"
                   /\ UNCHANGED <<exc, farewell>>
              [] out.exc = "FileNotFoundError" ->
                   /\ ret' = "False"
                   /\ pc' = "returned"
                   /\ UNCHANGED <<exc, farewell>>
              [] OTHER -> Unwind(out.exc)
    /\ UNCHANGED <<argv, now, total_writes>>

\* lines 55-61: load the existing dashboard
Load ==
    /\ pc = "load"
    /\ UNCHANGED usage
    /\ cycles' = cycles + 1
    /\ prior' = file
    /\ ops' = [NoOps EXCEPT !.loads = 1]
    /\ response' = NoResponse
    /\ price_data' = None
    /\ LET out == open_load(file) IN
         /\ dashboard' = out.dashboard
         /\ file' = out.file
         /\ CASE out.exc = "none" ->
                   /\ ret' = "none"
                   /\ pc' = "fetch"
                   /\ UNCHANGED <<exc, farewell>>
              [] out.exc = "FileNotFoundError" ->
                   \* except FileNotFoundError: return False
                   /\ ret' = "False"
                   /\ pc' = "returned"
                   /\ UNCHANGED <<exc, farewell>>
              [] OTHER -> Unwind(out.exc)
    /\ UNCHANGED <<argv, now, total_writes>>

\* variant: a failed request is repeated once before giving up
Fetch_Retry ==
    /\ pc = "fetch"
    /\ UNCHANGED usage
    /\ \E r \in Responses :
         LET out == fetch_xrp_price_data(r) IN
         /\ response' = r
         /\ price_data' = out.value
         /\ ops' = [ops EXCEPT !.requests =
                      IF r \in FailedResponses THEN @ + 2 ELSE @ + 1]
         /\ IF out.exc = "none"
            THEN pc' = "merge" /\ UNCHANGED <<ret, exc, farewell>>
            ELSE Unwind(out.exc)
    /\ UNCHANGED <<argv, file, dashboard, now, prior, cycles, total_writes>>

\* line 65: price_data = fetch_xrp_price_data()
Fetch ==
    /\ pc = "fetch"
    /\ UNCHANGED usage
    /\ \E r \in Responses :
         LET out == fetch_xrp_price_data(r) IN
         /\ response' = r
         /\ price_data' = out.value
         /\ IF out.exc = "none"
            THEN pc' = "merge" /\ UNCHANGED <<ret, exc, farewell>>
            ELSE Unwind(out.exc)
    /\ ops' = [ops EXCEPT !.requests = @ + 1]
    /\ UNCHANGED <<argv, file, dashboard, now, prior, cycles, total_writes>>

\* variant: the dashboard is saved as soon as the market metrics are merged
MergeMetrics_Save ==
    /\ pc = "merge"
    /\ UNCHANGED usage
    /\ LET out == ReconcileMarketMetrics(dashboard, price_data, now) IN
         /\ dashboard' = out.dashboard
         /\ file' = json_dump(out.dashboard)
         /\ IF out.exc = "none"
            THEN pc' = "supply" /\ UNCHANGED <<ret, exc, farewell>>
            ELSE Unwind(out.exc)
    /\ UNCHANGED <<argv, price_data, now, prior, response, cycles, ops,
                   total_writes>>

\* lines 67-82
MergeMetrics ==
    /\ pc = "merge"
    /\ UNCHANGED usage
    /\ LET out == ReconcileMarketMetrics(dashboard, price_data, now) IN
         /\ dashboard' = out.dashboard
         /\ IF out.exc = "none"
            THEN pc' = "supply" /\ UNCHANGED <<ret, exc, farewell>>
            ELSE Unwind(out.exc)
    /\ UNCHANGED <<argv, file, price_data, now, prior, response, cycles, ops,
                   total_writes>>

\* lines 84-90
MergeSupply ==
    /\ pc = "supply"
    /\ UNCHANGED usage
    /\ LET out == ReconcileExchangeSupply(dashboard, fetch_exchange_supply) IN
         /\ dashboard' = out.dashboard
         /\ IF out.exc = "none"
            THEN pc' = "persist" /\ UNCHANGED <<ret, exc, farewell>>
            ELSE Unwind(out.exc)
    /\ UNCHANGED <<argv, file, price_data, now, prior, response, cycles, ops,
                   total_writes>>

\* lines 92-100: write the file and return True
Persist ==
    /\ pc = "persist"
    /\ UNCHANGED usage
    /\ file' = json_dump(dashboard)
    /\ ops' = [ops EXCEPT !.writes = @ + 1]
    /\ total_writes' = total_writes + 1
    /\ ret' = "True"
    /\ pc' = "returned"
    /\ UNCHANGED <<argv, dashboard, price_data, now, exc, farewell, prior,
                   response, cycles>>

\* lines 109-110 and 131: back in the caller
Return ==
    /\ pc = "returned"
    /\ UNCHANGED usage
    /\ pc' = IF Continuous THEN "sleep" ELSE "exited"
    /\ UNCHANGED <<argv, file, dashboard, price_data, now, ret, exc, farewell,
                   prior, response, cycles, ops, total_writes>>

\* line 111: time.sleep(interval_minutes * 60), then the next iteration
Sleep ==
    /\ pc = "sleep"
    /\ UNCHANGED usage
    /\ cycles < MaxCycles
    /\ \E t \in (now + 1)..MaxTime : now' = t
    /\ pc' = "load"
    /\ UNCHANGED <<argv, file, dashboard, price_data, ret, exc, farewell,
                   prior, response, cycles, ops, total_writes>>

\* datetime.now() is naive local time: the wall clock may be set back
\* (end of daylight saving time, manual or NTP adjustment) while sleeping
ClockSetBack ==
    /\ pc = "sleep"
    /\ UNCHANGED usage
    /\ cycles < MaxCycles
    /\ \E t \in 0..(now - 1) : now' = t
    /\ pc' = "load"
    /\ UNCHANGED <<argv, file, dashboard, price_data, ret, exc, farewell,
                   prior, response, cycles, ops, total_writes>>

\* Ctrl+C while update_dashboard_json runs outside requests.get
InterruptCycle ==
    /\ pc \in {"merge", "supply"}
    /\ UNCHANGED usage
    /\ Unwind("KeyboardInterrupt")
    /\ UNCHANGED <<argv, file, dashboard, price_data, now, prior, response,
                   cycles, ops, total_writes>>

\* Ctrl+C at the persist step: before open(), or after open(filename, 'w')
\* truncated the file and before json.dump completed
InterruptWrite ==
    /\ pc = "persist"
    /\ UNCHANGED usage
    /\ Unwind("KeyboardInterrupt")
    /\ \/ UNCHANGED <<file, ops, total_writes>>
       \/ /\ file' = Corrupt
          /\ ops' = [ops EXCEPT !.writes = @ + 1]
          /\ total_writes' = total_writes + 1
    /\ UNCHANGED <<argv, dashboard, price_data, now, prior, response, cycles>>

\* variant: continuous_update has no `except KeyboardInterrupt`
InterruptSleep_Uncaught ==
    /\ pc = "sleep"
    /\ UNCHANGED usage
    /\ exc' = "KeyboardInterrupt"
    /\ pc' = "crashed"
    /\ UNCHANGED <<argv, file, dashboard, price_data, now, ret, farewell,
                   prior, response, cycles, ops, total_writes>>

\* Ctrl+C during time.sleep
InterruptSleep ==
    /\ pc = "sleep"
    /\ UNCHANGED usage
    /\ exc' = "KeyboardInterrupt"
    /\ farewell' = TRUE
    /\ pc' = "exited"
    /\ UNCHANGED <<argv, file, dashboard, price_data, now, ret, prior,
                   response, cycles, ops, total_writes>>

Next ==
    \/ Main
    \/ Load
    \/ Fetch
    \/ MergeMetrics
    \/ MergeSupply
    \/ Persist
    \/ Return
    \/ Sleep
    \/ ClockSetBack
    \/ InterruptCycle
    \/ InterruptWrite
    \/ InterruptSleep

Spec == Init /\ [][Next]_vars

----------------------------------------------------------------------------
(* Observations used by the properties *)

\* update_dashboard_json wrote the file and returned True
CycleDone == pc = "returned" /\ ret = "True"

\* the current cycle ended by itself: it returned or an exception other
\* than an interrupt left it
CycleOver ==
    /\ cycles > 0
    /\ pc \in {"returned", "crashed"}
    /\ exc # "KeyboardInterrupt"

KeyMetricsOf(d) == d.trigger_dashboard.exchange_supply_depletion.key_metrics

\* the two exchange-supply fields of a document
Supply(d) ==
    IF HasSupplyPath(d)
    THEN [k \in SupplyKeys \cap DOMAIN KeyMetricsOf(d) |-> KeyMetricsOf(d)[k]]
    ELSE None

StubSupply ==
    [binance_reserves_xrp |-> "3600000000",
     total_exchange_supply_xrp |-> "8500000000"]

\* the four market fields of a document
MetricsOf(d) ==
    IF Has(d, "current_market_metrics")
    THEN [k \in MetricKeys \cap DOMAIN d.current_market_metrics |->
            d.current_market_metrics[k]]
    ELSE None

LastUpdated(d) ==
    IF Has(d, "metadata") /\ Has(d.metadata, "last_updated")
    THEN d.metadata.last_updated
    ELSE None

\* the four market fields as the HTTP response r carries them
Fetched(r) ==
    [price_usd |-> r.data.ripple.usd,
     price_change_24h_pct |-> r.data.ripple.usd_24h_change,
     market_cap_usd |-> r.data.ripple.usd_market_cap,
     volume_24h_usd |-> r.data.ripple.usd_24h_vol]

FetchSucceeded == response \in FullBodies \cup NullBodies

\* a document without the two exchange-supply fields
WithoutSupply(d) ==
    IF HasSupplyPath(d)
    THEN LET td == d.trigger_dashboard
             esd == td.exchange_supply_depletion
             km == esd.key_metrics
         IN SetItem(d, "trigger_dashboard",
              SetItem(td, "exchange_supply_depletion",
                SetItem(esd, "key_metrics",
                  [k \in DOMAIN km \ SupplyKeys |-> km[k]])))
    ELSE d

\* a document without the seven fields a cycle may assign
Frame(d) ==
    LET d1 == WithoutSupply(d)
        d2 == IF Has(d1, "current_market_metrics")
              THEN SetItem(d1, "current_market_metrics",
                     [k \in DOMAIN d1.current_market_metrics \ MetricKeys |->
                        d1.current_market_metrics[k]])
              ELSE d1
    IN IF Has(d2, "metadata")
       THEN SetItem(d2, "metadata",
              [k \in DOMAIN d2.metadata \ {"last_updated"} |-> d2.metadata[k]])
       ELSE d2

----------------------------------------------------------------------------
(* Properties *)

\* C1 as stated: after a cycle whose fetch yielded no data on a well-formed
\* prior document, the two exchange-supply fields of the persisted document
\* equal their prior persisted values, whatever those were.
C1_AsStated ==
    (CycleDone /\ price_data = None /\ WellFormed(prior.doc))
        => Supply(file.doc) = Supply(prior.doc)

\* C1 amended: after a cycle whose fetch yielded no data on a well-formed
\* prior document, the two exchange-supply fields of the persisted document
\* hold "3600000000" and "8500000000"; they equal their prior values only
\* when the prior values were already these strings.
C1_SupplyAfterFailedFetch ==
    (CycleDone /\ price_data = None /\ WellFormed(prior.doc))
        => /\ Supply(file.doc) = StubSupply
           /\ (Supply(file.doc) = Supply(prior.doc)
                 <=> Supply(prior.doc) = StubSupply)

C1_Witness ==
    /\ CycleDone
    /\ response \in FailedResponses
    /\ WellFormed(prior.doc)
    /\ Supply(prior.doc) # StubSupply
    /\ Supply(file.doc) = StubSupply

\* C2: after a cycle whose fetch yielded no data on a well-formed prior
\* document, the four current_market_metrics fields and
\* metadata.last_updated of the persisted document equal their values
\* before the cycle.
C2_FailedFetchKeepsMetrics ==
    (CycleDone /\ price_data = None /\ WellFormed(prior.doc))
        => /\ MetricsOf(file.doc) = MetricsOf(prior.doc)
           /\ DOMAIN MetricsOf(file.doc) = MetricKeys
           /\ LastUpdated(file.doc) = LastUpdated(prior.doc)
           /\ LastUpdated(file.doc) # None

C2_Witness ==
    /\ CycleDone
    /\ response \in FailedResponses
    /\ WellFormed(prior.doc)
    /\ LastUpdated(prior.doc) # isoformat(now)
    /\ MetricsOf(file.doc) = MetricsOf(prior.doc)

\* C3 as stated: when the store exists but is not valid JSON,
\* update_dashboard_json returns failure to its caller, nothing is written,
\* no exception escapes it and the process does not crash.
C3_CorruptStoreReturnsFailure ==
    (cycles > 0 /\ prior.kind = "corrupt")
        => /\ ret = "False"
           /\ exc = "none"
           /\ pc # "crashed"
           /\ file = prior
           /\ ops.writes = 0

\* C4: when the store file does not exist, update_dashboard_json returns
\* False, no file is created at the path and the cycle performs no write.
C4_MissingStoreUntouched ==
    (cycles > 0 /\ prior.kind = "missing")
        => /\ ret = "False"
           /\ file = Missing
           /\ ops.writes = 0
           /\ total_writes = 0
           /\ pc # "crashed"

C4_Witness ==
    /\ pc = "returned"
    /\ prior.kind = "missing"
    /\ ret = "False"
    /\ file = Missing

C6_AsStated ==
    (CycleDone /\ WellFormed(prior.doc))
        => LastUpdated(file.doc) = isoformat(now)

\* C6 amended: metadata.last_updated is set by the merge step only on a
\* cycle whose fetch succeeded: after a completed cycle with fetch data the
\* persisted last_updated is that cycle's timestamp, and after a completed
\* cycle without fetch data it is the value the document had before.
C6_StampOnlyOnSuccess ==
    CycleDone
        => IF price_data # None
           THEN LastUpdated(file.doc) = isoformat(now)
           ELSE LastUpdated(file.doc) = LastUpdated(prior.doc)

C6_Witness ==
    /\ CycleDone
    /\ cycles = 2
    /\ response \in FailedResponses
    /\ LastUpdated(file.doc) # None
    /\ LastUpdated(file.doc) # isoformat(now)
    /\ LastUpdated(file.doc) = LastUpdated(prior.doc)

\* C7 as stated: after a cycle with a successful fetch the persisted
\* metadata.last_updated is chronologically strictly greater than the value
\* before the cycle, for any prior document.
C7_AsStated ==
    (CycleDone /\ price_data # None /\ LastUpdated(prior.doc) # None)
        => LastUpdated(file.doc).iso > LastUpdated(prior.doc).iso

\* C7 amended: after a cycle with a successful fetch the persisted
\* metadata.last_updated is the local clock reading of that cycle; it is
\* strictly greater than the value before the cycle exactly when that value
\* is earlier than the clock reading, which is not so for a prior document
\* stamped at or after the current local time, nor between consecutive
\* cycles across which the local clock was set back.
C7_StampGreaterIffPriorEarlier ==
    (CycleDone /\ price_data # None /\ LastUpdated(prior.doc) # None)
        => /\ LastUpdated(file.doc) # None
           /\ (LastUpdated(file.doc).iso > LastUpdated(prior.doc).iso
                 <=> LastUpdated(prior.doc).iso < now)

C7_Witness ==
    /\ CycleDone
    /\ cycles = 2
    /\ price_data # None
    /\ LastUpdated(prior.doc) # None
    /\ LastUpdated(prior.doc).iso < now
    /\ LastUpdated(file.doc).iso > LastUpdated(prior.doc).iso

\* the store a cycle without fetch data leaves, as a function of the store
\* it started from
NoDataStore(p) ==
    IF HasSupplyPath(p.doc)
    THEN json_dump([p.doc EXCEPT
           !.trigger_dashboard.exchange_supply_depletion.key_metrics =
               [@ EXCEPT !.binance_reserves_xrp = "3600000000",
                         !.total_exchange_supply_xrp = "8500000000"]])
    ELSE p

\* C8: a network error, a timeout, a non-success HTTP status, a non-JSON
\* body and a response missing the asset id or any of the four expected
\* keys all make fetch_xrp_price_data return None without raising, and the
\* cycle that follows ends the same way for every one of these causes: the
\* persisted document and the return value depend on the prior store only.
C8_FetchFailuresCollapse ==
    (cycles > 0 /\ response \in FailedResponses)
        => /\ price_data = None
           /\ pc = "merge" => (exc = "none" /\ ret = "none")
           /\ CycleOver =>
                /\ file = NoDataStore(prior)
                /\ ret = IF HasSupplyPath(prior.doc) THEN "True" ELSE "raised"
                /\ exc = IF HasSupplyPath(prior.doc) THEN "none" ELSE "KeyError"

C8_Witness ==
    /\ CycleDone
    /\ response \in MissingKeyBodies
    /\ price_data = None
    /\ file = NoDataStore(prior)

\* C9 as stated: a cycle with no fetch data on a well-formed document
\* persists a document deep-equal to the original.
C9_AsStated ==
    (CycleDone /\ price_data = None /\ WellFormed(prior.doc))
        => file.doc = prior.doc

\* C9 amended: a cycle with no fetch data on a well-formed document
\* persists a document deep-equal to the original except for
\* binance_reserves_xrp and total_exchange_supply_xrp, which hold
\* "3600000000" and "8500000000"; no other field is lost or changed, and
\* the document is deep-equal to the original when the two fields already
\* held these strings.
C9_RoundTripUpToSupply ==
    (CycleDone /\ price_data = None /\ WellFormed(prior.doc))
        => /\ WithoutSupply(file.doc) = WithoutSupply(prior.doc)
           /\ Supply(file.doc) = StubSupply
           /\ (Supply(prior.doc) = StubSupply => file.doc = prior.doc)

C9_Witness ==
    /\ CycleDone
    /\ price_data = None
    /\ WellFormed(prior.doc)
    /\ Supply(prior.doc) = StubSupply
    /\ file.doc = prior.doc

\* C10: on every cycle that writes the file, after a successful or a
\* failed fetch, every part of the document other than the four
\* current_market_metrics fields, metadata.last_updated and the two
\* exchange-supply fields is written back with the value that was loaded.
C10_FramePreserved ==
    (cycles > 0 /\ ops.writes > 0 /\ file.kind = "json")
        => /\ prior.kind = "json"
           /\ Frame(file.doc) = Frame(prior.doc)

C10_Witness ==
    /\ CycleDone
    /\ cycles = 2
    /\ response \in FullBodies
    /\ file.doc # prior.doc
    /\ Frame(file.doc) = Frame(prior.doc)
    /\ Frame(file.doc) # file.doc

\* C11 as stated: in continuous mode the loop ends only because of an
\* external interrupt: no outcome of a cycle (fetch failure, missing store,
\* corrupt store, document lacking an expected section) ends it, and when
\* it ends it exits cleanly with the farewell message, not with an error.
C11_LoopEndsOnlyOnInterrupt ==
    (Continuous /\ pc \in {"exited", "crashed"})
        => /\ pc = "exited"
           /\ exc = "KeyboardInterrupt"
           /\ farewell

\* C12: in continuous mode with a loadable store, an interrupt during the
\* sleep that follows the n-th iteration ends the loop before iteration
\* n+1 starts: exactly n writes to the store have occurred, the farewell is
\* printed, the process exits without an error, and nothing is fetched or
\* written afterwards.
C12_InterruptDuringSleep ==
    /\ []((Continuous /\ pc = "exited" /\ ret # "raised"
             /\ prior.kind = "json")
            => /\ exc = "KeyboardInterrupt"
               /\ farewell
               /\ total_writes = cycles
               /\ ops.requests = 1
               /\ file = json_dump(dashboard))
    /\ [][pc = "sleep" /\ pc' # "load"
            => /\ pc' = "exited"
               /\ farewell'
               /\ UNCHANGED <<file, cycles, ops, total_writes>>]_vars
    /\ [][pc = "exited" => UNCHANGED vars]_vars

C12_Witness ==
    /\ Continuous
    /\ pc = "exited"
    /\ ret = "True"
    /\ exc = "KeyboardInterrupt"
    /\ farewell
    /\ cycles = 2
    /\ total_writes = 2

C15_NoRetry ==
    /\ [](ops.loads <= 1 /\ ops.requests <= 1 /\ ops.writes <= 1)
    /\ [][(Continuous /\ pc = "returned")
            => (pc' = "sleep" /\ UNCHANGED <<file, cycles, ops>>)]_vars
    /\ [][(pc = "sleep" /\ pc' # "exited")
            => (pc' = "load" /\ UNCHANGED <<file, cycles, ops>>)]_vars
    /\ [][cycles' # cycles
            => (pc = "load" /\ cycles' = cycles + 1 /\ ops'.loads = 1
                  /\ ops'.requests = 0 /\ ops'.writes = 0)]_vars

C15_Witness ==
    /\ Continuous
    /\ pc = "fetch"
    /\ cycles = 2
    /\ ret = "none"
    /\ price_data = None
    /\ ops = [loads |-> 1, requests |-> 0, writes |-> 0]
    /\ LastUpdated(dashboard) # None
    /\ LastUpdated(dashboard).iso = 0
    /\ now > 1

\* C16: in single-shot mode (no argument) the cycle runs exactly once, the
\* fetch before the merge, and the program returns: no sleep, no second
\* cycle.
C16_SingleShotOnce ==
    (argv = <<>>)
        => /\ cycles <= 1
           /\ pc # "sleep"
           /\ now = 1
           /\ ~farewell
           /\ ops.requests <= 1
           /\ pc \in {"merge", "supply", "persist"} => ops.requests = 1
           /\ pc \in {"returned", "exited"} => cycles = 1
           /\ pc = "exited" => ret \in {"True", "False"}
           /\ ret = "True" =>
                (ops.requests = 1 /\ ops.writes = 1 /\ total_writes = 1)

C16_Witness ==
    /\ argv = <<>>
    /\ pc = "exited"
    /\ cycles = 1
    /\ ret = "True"
    /\ response \in FullBodies
    /\ total_writes = 1

\* C17: --help prints the usage and performs no update: no HTTP request,
\* no read or write of the store, no cycle.
C17_HelpDoesNothing ==
    (Len(argv) > 0 /\ argv[1] = "--help")
        => /\ pc \in {"main", "exited"}
           /\ pc = "exited" => usage
           /\ cycles = 0
           /\ ops = NoOps
           /\ total_writes = 0
           /\ response = NoResponse
           /\ dashboard = None
           /\ file = prior

C17_Witness ==
    /\ argv = <<"--help">>
    /\ pc = "exited"
    /\ usage
    /\ file.kind = "json"
    /\ cycles = 0

\* C18: within update_dashboard_json the store is written only at the
\* persist step, after both reconcile steps: while the cycle is between the
\* load and the persist step, and when it aborts there with an error
\* (KeyError for a missing section, TypeError for a null metric), the file
\* on disk is as it was before the cycle, even though the in-memory
\* document may already be modified.
C18_WriteOnlyAtPersist ==
    /\ (cycles > 0 /\ pc \in {"fetch", "merge", "supply", "persist"})
          => (file = prior /\ ops.writes = 0)
    /\ (cycles > 0 /\ pc = "crashed" /\ exc \in {"KeyError", "TypeError"})
          => (file = prior /\ ops.writes = 0 /\ total_writes = cycles - 1)
    /\ ops.writes = 0 => file = prior
    /\ (cycles > 0 /\ file # prior)
          => \/ (file = json_dump(dashboard) /\ ret = "True")
             \/ (file = Corrupt /\ exc = "KeyboardInterrupt")

C18_Witness ==
    /\ pc = "crashed"
    /\ exc = "TypeError"
    /\ prior.kind = "json"
    /\ file = prior
    /\ dashboard # prior.doc
    /\ ops.writes = 0

\* C19: an interrupt that arrives while the fetch is in progress is not
\* turned into a 'no data' result: the cycle is abandoned before the
\* persist step, the store stays as the previous completed cycle wrote it,
\* and in continuous mode the loop stops with the farewell message.
C19_InterruptDuringFetch ==
    (cycles > 0 /\ response = Interrupted)
        => /\ exc = "KeyboardInterrupt"
           /\ ret = "raised"
           /\ pc \in {"exited", "crashed"}
           /\ file = prior
           /\ ops.writes = 0
           /\ total_writes = cycles - 1
           /\ dashboard = json_load(prior)
           /\ Continuous => (pc = "exited" /\ farewell)

C19_Witness ==
    /\ Continuous
    /\ response = Interrupted
    /\ cycles = 2
    /\ pc = "exited"
    /\ farewell
    /\ total_writes = 1
    /\ file = prior

\* C20: in every cycle the load of the store precedes the fetch: an HTTP
\* request is issued only after the document was loaded, and a cycle whose
\* store is missing (or cannot be parsed) issues no request.
C20_LoadBeforeFetch ==
    /\ ops.requests > 0
          => (ops.loads = 1 /\ prior.kind = "json" /\ dashboard # None)
    /\ (cycles > 0 /\ prior.kind # "json")
          => (ops.requests = 0 /\ response = NoResponse)
    /\ pc = "fetch" => (ops.requests = 0 /\ dashboard = json_load(prior))

C20_Witness ==
    /\ Continuous
    /\ cycles = 2
    /\ pc = "returned"
    /\ prior = Missing
    /\ ops = [loads |-> 1, requests |-> 0, writes |-> 0]

====
